---- MODULE Spec2Model ----
(***************************************************************************)
(* archivist.py: command-line uploader of a folder to an Internet Archive  *)
(* item.  The module models one invocation of main(): the parsed flags,    *)
(* the metadata resolution (flags and interactive prompts), the file       *)
(* enumeration of upload_folder and the two calls into the external        *)
(* client (get_item, item.upload).                                         *)
(*                                                                         *)
(* Strings are sequences of tokens (a token is one character, or a run of  *)
(* characters no operation of the program looks inside), so that strip(),  *)
(* lower(), str(Path), Path(str) and relative_to() are computed and not    *)
(* assumed.  stdout is modelled as the set of outcome lines printed; the   *)
(* progress lines ("Starting upload process", "Found N file(s)", "This     *)
(* field is required", ...) are not recorded.  Every input() is assumed to *)
(* return a line (stdin is not closed and the user does not interrupt).    *)
(***************************************************************************)
EXTENDS Integers, Sequences, FiniteSets, TLC

VARIABLES
    args,               \* argparse namespace (line 116)
    fs,                 \* regular files on disk, as absolute component paths
    toolPath,           \* __file__: where archivist.py itself is installed
    pc,                 \* position in main()/upload_folder()
    target_folder,      \* line 118
    metadata,           \* main's metadata dict, later upload_folder's argument
    missing_prompts,    \* line 157
    idx,                \* position of get_user_input's for loop in missing_prompts
    user_metadata,      \* get_user_input's metadata dict
    identifier,         \* line 169
    get_user_input_calls, \* number of calls of get_user_input
    prompted,           \* keys for which get_user_input called input()
    files_to_upload,    \* line 35, as the set of the list's strings
    confirm,            \* the raw line read by the confirmation input(), or None
    get_item_calls,     \* sequence of the arguments get_item was called with
    upload_calls,       \* sequence of [files, metadata] item.upload was called with
    raised,             \* exceptions the external client raised: <<where, kind, text>>
    output,             \* outcome lines printed, as <<kind, text>>
    exit_status         \* process exit code, Running until the process ends

vars ==
    << args, fs, toolPath, pc, target_folder, metadata, missing_prompts, idx,
       user_metadata, identifier, get_user_input_calls, prompted,
       files_to_upload, confirm,
       get_item_calls, upload_calls, raised, output, exit_status >>

-----------------------------------------------------------------------------
(* Bounds and input alphabets *)

\* Largest number of regular files below the current directory
MaxFiles == 2

\* Python's None: a value different from every string (no string holds this token)
None == << "<None>" >>

\* exit_status while the process has not ended
Running == << "<running>" >>

\* The current working directory and the places archivist.py can be installed
Cwd == << "home" >>
ScriptName == "archivist.py"
ToolPaths == { Cwd \o << ScriptName >>, << "opt", ScriptName >> }

\* Regular files that may exist below the current directory
CandidateFiles ==
    { Cwd \o << "a.txt" >>,
      Cwd \o << "sub", "b.txt" >>,
      Cwd \o << ScriptName >>,
      Cwd \o << "sub", ScriptName >> }

\* The positional folder argument: the default, and a folder that does not exist
Folders == { << "." >>, << "missing" >> }

\* The non-empty value each flag is given when it is given one
FlagValue ==
    [ identifier  |-> << "my", "-", "item" >>,
      title       |-> << "T" >>,
      creator     |-> << "C" >>,
      mediatype   |-> << "texts" >>,
      description |-> << "D" >>,
      subjects    |-> << "a", ",", "b" >>,
      year        |-> << "1999" >> ]

\* A flag is absent (None), given the empty string, or given its value
FlagChoices(f) == { None, << >>, FlagValue[f] }

\* Lines the user may type at a metadata prompt
Answers == { << >>, << " " >>, << "p" >>, << " ", "p", " " >> }

\* Lines the user may type at the confirmation prompt
ConfirmAnswers ==
    { << "y" >>, << "Y" >>, << "n" >>, << "N" >>, << >>, << " ", "y" >>,
      << "y", "e", "s" >> }

\* Message texts of the exceptions the external client may raise
ExcTexts == { << "timed out" >>, << "item is locked" >> }

\* What a call into the external client does: returns, or raises
ClientRaises ==
    { << "AuthenticationError", t >> : t \in ExcTexts } \cup
    { << "Exception", t >> : t \in ExcTexts }

-----------------------------------------------------------------------------
(* Python values *)

\* bool(v) of a flag value or a line: None and "" are false
Truthy(v) == v # None /\ v # << >>

WhiteSpace == { " ", "\t" }

RECURSIVE LStrip(_)
LStrip(s) ==
    IF s # << >> /\ Head(s) \in WhiteSpace THEN LStrip(Tail(s)) ELSE s

RECURSIVE RStrip(_)
RStrip(s) ==
    IF s # << >> /\ s[Len(s)] \in WhiteSpace
    THEN RStrip(SubSeq(s, 1, Len(s) - 1)) ELSE s

\* str.strip()
Strip(s) == RStrip(LStrip(s))

LowerChar(c) ==
    CASE c = "Y" -> "y"
      [] c = "N" -> "n"
      [] c = "E" -> "e"
      [] c = "S" -> "s"
      [] OTHER   -> c

\* str.lower()
Lower(s) == [ i \in 1..Len(s) |-> LowerChar(s[i]) ]

EmptyDict == [ k \in {} |-> << >> ]

\* d[k] = v
DictSet(d, k, v) ==
    [ x \in DOMAIN d \cup { k } |-> IF x = k THEN v ELSE d[x] ]

\* d.update(u)
DictUpdate(d, u) ==
    [ x \in DOMAIN d \cup DOMAIN u |-> IF x \in DOMAIN u THEN u[x] ELSE d[x] ]

\* the dict left by d.pop(k)
DictWithout(d, k) == [ x \in DOMAIN d \ { k } |-> d[x] ]

\* getattr(args, name, None)
GetAttr(a, name) == IF name \in DOMAIN a THEN a[name] ELSE None

-----------------------------------------------------------------------------
(* Paths *)

\* str(Path): the components joined by "/", after the root "/" of an absolute path
RECURSIVE JoinParts(_)
JoinParts(parts) ==
    IF parts = << >> THEN << >>
    ELSE IF Len(parts) = 1 THEN parts
    ELSE << Head(parts), "/" >> \o JoinParts(Tail(parts))

PathStr(p) == (IF p.abs THEN << "/" >> ELSE << >>) \o JoinParts(p.parts)

\* Path(str): the components between the separators
RECURSIVE SplitParts(_)
SplitParts(s) ==
    IF s = << >> THEN << >>
    ELSE IF Head(s) = "/" THEN SplitParts(Tail(s))
    ELSE << Head(s) >> \o SplitParts(Tail(s))

PathOf(s) == [ abs |-> s # << >> /\ Head(s) = "/", parts |-> SplitParts(s) ]

IsPrefix(a, b) == Len(a) <= Len(b) /\ SubSeq(b, 1, Len(a)) = a

\* Path.relative_to(base), for a path below base
RelativeTo(p, base) ==
    [ abs |-> FALSE, parts |-> SubSeq(p.parts, Len(base.parts) + 1, Len(p.parts)) ]

\* Path.name
PathName(p) == p.parts[Len(p.parts)]

\* os.path.abspath(folder), for "." and for a relative name
AbsPath(folder) ==
    IF folder = << "." >>
    THEN PathStr([ abs |-> TRUE, parts |-> Cwd ])
    ELSE PathStr([ abs |-> TRUE, parts |-> Cwd \o folder ])

\* The directories of the file system: the current directory and every ancestor
\* of a regular file
Dirs ==
    { Cwd } \cup
    UNION { { SubSeq(f, 1, n) : n \in 1..(Len(f) - 1) } : f \in fs }

\* os.path.isdir
IsDir(s) == PathOf(s).abs /\ PathOf(s).parts \in Dirs

\* Path.is_file()
IsFile(p) == p.abs /\ p.parts \in fs

\* Path(base).rglob('*'): every entry, file or directory, below base
RGlob(base) ==
    { [ abs |-> TRUE, parts |-> e ] :
        e \in { x \in fs \cup Dirs :
                  IsPrefix(base.parts, x) /\ Len(x) > Len(base.parts) } }

-----------------------------------------------------------------------------
(* main(), lines 90-171 *)

\* metadata_prompts, lines 125-134 (the prompt texts are not modelled)
metadata_prompts ==
    << [ key |-> "identifier",  required |-> TRUE ],
       [ key |-> "title",       required |-> TRUE ],
       [ key |-> "creator",     required |-> TRUE ],
       [ key |-> "mediatype",   required |-> TRUE ],
       [ key |-> "description", required |-> FALSE ],
       [ key |-> "subject",     required |-> FALSE ],
       [ key |-> "date",        required |-> FALSE ] >>

\* The test of line 141
EssentialProvided(a) ==
    /\ Truthy(a.identifier)
    /\ Truthy(a.title)
    /\ Truthy(a.creator)
    /\ Truthy(a.mediatype)

\* Lines 143-149: the record built from the flags alone
OptionalFromFlag(d, a, flag, key) ==
    IF Truthy(a[flag]) THEN DictSet(d, key, a[flag]) ELSE d

CliMetadata(a) ==
    LET required ==
            [ k \in { "identifier", "title", "creator", "mediatype" } |-> a[k] ]
        d1 == OptionalFromFlag(required, a, "description", "description")
        d2 == OptionalFromFlag(d1, a, "subjects", "subject")
    IN  OptionalFromFlag(d2, a, "year", "date")

\* Line 157: the prompts whose key names no flag that was given
RECURSIVE MissingPrompts(_, _)
MissingPrompts(prompts, a) ==
    IF prompts = << >> THEN << >>
    ELSE (IF GetAttr(a, Head(prompts).key) = None
          THEN << Head(prompts) >> ELSE << >>)
         \o MissingPrompts(Tail(prompts), a)

\* Line 164
MetaKey(key) ==
    IF key = "subjects" THEN "subject" ELSE IF key = "year" THEN "date" ELSE key

\* Lines 161-165: the loop over metadata_prompts, from its i-th entry on
RECURSIVE CombineFrom(_, _, _)
CombineFrom(d, a, i) ==
    IF i > Len(metadata_prompts) THEN d
    ELSE LET key == metadata_prompts[i].key
         IN  CombineFrom(
                 IF Truthy(GetAttr(a, key))
                 THEN DictSet(d, MetaKey(key), GetAttr(a, key)) ELSE d,
                 a, i + 1)

\* Lines 160-166
Combine(d, a, user) == DictUpdate(CombineFrom(d, a, 1), user)

\* The process ends with the given exit code
Exit(code) ==
    /\ pc' = "done"
    /\ exit_status' = code

\* Lines 118-121: the target is no directory
FolderNotFound ==
    /\ pc = "main"
    /\ ~IsDir(AbsPath(args.folder))
    /\ target_folder' = AbsPath(args.folder)
    /\ output' = output \cup { << "folder not found", AbsPath(args.folder) >> }
    /\ Exit(1)
    /\ UNCHANGED << args, fs, toolPath, metadata, missing_prompts, idx,
                    user_metadata, identifier, get_user_input_calls, prompted,
                    files_to_upload, confirm, get_item_calls, upload_calls, raised >>

\* MetadataFromFlags without line 142: the record is built from the flags and
\* get_user_input is called all the same
MetadataFromFlags_StillPrompts ==
    /\ pc = "main"
    /\ IsDir(AbsPath(args.folder))
    /\ EssentialProvided(args)
    /\ target_folder' = AbsPath(args.folder)
    /\ metadata' = CliMetadata(args)
    /\ missing_prompts' = MissingPrompts(metadata_prompts, args)
    /\ get_user_input_calls' = get_user_input_calls + 1
    /\ idx' = 1
    /\ user_metadata' = EmptyDict
    /\ pc' = IF MissingPrompts(metadata_prompts, args) = << >>
             THEN "combine" ELSE "input"
    /\ UNCHANGED << args, fs, toolPath, identifier, prompted, files_to_upload,
                    confirm, get_item_calls, upload_calls, raised, output,
                    exit_status >>

\* Lines 141-149, then 155 is false: every essential flag is given
MetadataFromFlags ==
    /\ pc = "main"
    /\ IsDir(AbsPath(args.folder))
    /\ EssentialProvided(args)
    /\ target_folder' = AbsPath(args.folder)
    /\ metadata' = CliMetadata(args)
    /\ pc' = "pop"
    /\ UNCHANGED << args, fs, toolPath, missing_prompts, idx, user_metadata,
                    identifier, get_user_input_calls, prompted, files_to_upload,
                    confirm, get_item_calls, upload_calls, raised, output,
                    exit_status >>

\* NonInteractiveError without the test of line 150: the run goes on to prompt
NonInteractiveError_Prompts ==
    /\ pc = "main"
    /\ IsDir(AbsPath(args.folder))
    /\ ~EssentialProvided(args)
    /\ args.yes
    /\ target_folder' = AbsPath(args.folder)
    /\ missing_prompts' = MissingPrompts(metadata_prompts, args)
    /\ get_user_input_calls' = get_user_input_calls + 1
    /\ idx' = 1
    /\ user_metadata' = EmptyDict
    /\ pc' = IF MissingPrompts(metadata_prompts, args) = << >>
             THEN "combine" ELSE "input"
    /\ UNCHANGED << args, fs, toolPath, metadata, identifier, prompted,
                    files_to_upload, confirm, get_item_calls, upload_calls, raised,
                    output, exit_status >>

\* Lines 150-153: -y without every essential flag
NonInteractiveError ==
    /\ pc = "main"
    /\ IsDir(AbsPath(args.folder))
    /\ ~EssentialProvided(args)
    /\ args.yes
    /\ target_folder' = AbsPath(args.folder)
    /\ output' = output \cup
                   { << "required flags",
                        << "--identifier", "--title", "--creator", "--mediatype" >> >> }
    /\ Exit(1)
    /\ UNCHANGED << args, fs, toolPath, metadata, missing_prompts, idx,
                    user_metadata, identifier, get_user_input_calls, prompted,
                    files_to_upload, confirm, get_item_calls, upload_calls, raised >>

\* Lines 155-158 and 10-11: get_user_input is called with the missing prompts
StartPrompting ==
    /\ pc = "main"
    /\ IsDir(AbsPath(args.folder))
    /\ ~EssentialProvided(args)
    /\ ~args.yes
    /\ target_folder' = AbsPath(args.folder)
    /\ missing_prompts' = MissingPrompts(metadata_prompts, args)
    /\ get_user_input_calls' = get_user_input_calls + 1
    /\ idx' = 1
    /\ user_metadata' = EmptyDict
    /\ pc' = IF MissingPrompts(metadata_prompts, args) = << >>
             THEN "combine" ELSE "input"
    /\ UNCHANGED << args, fs, toolPath, metadata, identifier, prompted,
                    files_to_upload, confirm, get_item_calls, upload_calls, raised,
                    output, exit_status >>

\* Lines 13-19: one input() of get_user_input and what the loop does with the line
PromptInput ==
    /\ pc = "input"
    /\ \E line \in Answers :
         LET p     == missing_prompts[idx]
             value == Strip(line)
         IN  /\ prompted' = prompted \cup { p.key }
             /\ IF value # << >> \/ ~p.required
                THEN /\ user_metadata' =
                          IF value # << >>
                          THEN DictSet(user_metadata, p.key, value)
                          ELSE user_metadata
                     /\ idx' = idx + 1
                     /\ pc' = IF idx = Len(missing_prompts) THEN "combine" ELSE "input"
                ELSE \* "This field is required": the while loop asks again
                     UNCHANGED << user_metadata, idx, pc >>
    /\ UNCHANGED << args, fs, toolPath, target_folder, metadata, missing_prompts,
                    identifier, get_user_input_calls, files_to_upload, confirm,
                    get_item_calls, upload_calls, raised, output, exit_status >>

\* Lines 20 and 160-166: get_user_input returns and the two sources are merged
CombineMetadata ==
    /\ pc = "combine"
    /\ metadata' = Combine(metadata, args, user_metadata)
    /\ pc' = "pop"
    /\ UNCHANGED << args, fs, toolPath, target_folder, missing_prompts, idx,
                    user_metadata, identifier, get_user_input_calls, prompted,
                    files_to_upload, confirm, get_item_calls, upload_calls, raised,
                    output, exit_status >>

\* PopIdentifier reading the key instead of popping it
PopIdentifier_KeepsKey ==
    /\ pc = "pop"
    /\ "identifier" \in DOMAIN metadata
    /\ identifier' = metadata["identifier"]
    /\ pc' = "get_item"
    /\ UNCHANGED << args, fs, toolPath, target_folder, metadata, missing_prompts,
                    idx, user_metadata, get_user_input_calls, prompted,
                    files_to_upload, confirm, get_item_calls, upload_calls, raised,
                    output, exit_status >>

\* Line 169 with the key present; line 171 enters upload_folder
PopIdentifier ==
    /\ pc = "pop"
    /\ "identifier" \in DOMAIN metadata
    /\ identifier' = metadata["identifier"]
    /\ metadata' = DictWithout(metadata, "identifier")
    /\ pc' = "get_item"
    /\ UNCHANGED << args, fs, toolPath, target_folder, missing_prompts, idx,
                    user_metadata, get_user_input_calls, prompted, files_to_upload,
                    confirm, get_item_calls, upload_calls, raised, output,
                    exit_status >>

\* Line 169 with the key absent: KeyError, which nothing catches; the
\* interpreter prints the traceback and exits with code 1
PopKeyError ==
    /\ pc = "pop"
    /\ "identifier" \notin DOMAIN metadata
    /\ output' = output \cup { << "traceback", << "KeyError", "identifier" >> >> }
    /\ Exit(1)
    /\ UNCHANGED << args, fs, toolPath, target_folder, metadata, missing_prompts,
                    idx, user_metadata, identifier, get_user_input_calls, prompted,
                    files_to_upload, confirm, get_item_calls, upload_calls, raised >>

-----------------------------------------------------------------------------
(* upload_folder(), lines 22-88 *)

\* Line 34
script_name == PathName([ abs |-> TRUE, parts |-> toolPath ])

\* Lines 35-38
FilesFound(folder) ==
    { PathStr(p) : p \in { q \in RGlob(PathOf(folder)) :
                             IsFile(q) /\ PathName(q) # script_name } }

\* Lines 59-67: remote path -> local file
BuildUploadDict(files, folder) ==
    LET remote(local) == PathStr(RelativeTo(PathOf(local), PathOf(folder)))
    IN  [ k \in { remote(f) : f \in files } |->
            CHOOSE f \in files : remote(f) = k ]

\* ExceptLine with line 88 printing no exception text
ExceptLine_NoText(e) ==
    IF e[1] = "AuthenticationError"
    THEN << "authentication error",
            << "Please run 'ia configure' in your terminal to set up your credentials." >> >>
    ELSE << "unexpected error", << "An unexpected error occurred" >> >>

\* Lines 84-88: what the two except clauses print for an exception <<class, text>>
ExceptLine(e) ==
    IF e[1] = "AuthenticationError"
    THEN << "authentication error",
            << "Please run 'ia configure' in your terminal to set up your credentials." >> >>
    ELSE << "unexpected error", << "An unexpected error occurred: " >> \o e[2] >>

\* Line 82
ViewUrl(id) == << "https://archive.org/details/" >> \o id

\* GetItemReturns without the test of line 40
GetItemReturns_NoEmptyCheck ==
    /\ pc = "get_item"
    /\ get_item_calls' = Append(get_item_calls, identifier)
    /\ files_to_upload' = FilesFound(target_folder)
    /\ pc' = IF args.yes THEN "upload" ELSE "confirm"
    /\ UNCHANGED << args, fs, toolPath, target_folder, metadata, missing_prompts,
                    idx, user_metadata, identifier, get_user_input_calls, prompted,
                    confirm, upload_calls, raised, output, exit_status >>

\* Lines 31-51 when get_item returns: the files are listed; with none the
\* function returns, otherwise it goes on to the confirmation or to the upload
GetItemReturns ==
    /\ pc = "get_item"
    /\ get_item_calls' = Append(get_item_calls, identifier)
    /\ files_to_upload' = FilesFound(target_folder)
    /\ IF FilesFound(target_folder) = {}
       THEN /\ output' = output \cup { << "no files", << >> >> }
            /\ Exit(0)
       ELSE /\ pc' = IF args.yes THEN "upload" ELSE "confirm"
            /\ UNCHANGED << output, exit_status >>
    /\ UNCHANGED << args, fs, toolPath, target_folder, metadata, missing_prompts,
                    idx, user_metadata, identifier, get_user_input_calls, prompted,
                    confirm, upload_calls, raised >>

\* Line 31 raises: lines 84-88, then main returns
GetItemRaises ==
    /\ pc = "get_item"
    /\ get_item_calls' = Append(get_item_calls, identifier)
    /\ \E e \in ClientRaises :
         /\ raised' = raised \cup { << "get_item" >> \o e }
         /\ output' = output \cup { ExceptLine(e) }
    /\ Exit(0)
    /\ UNCHANGED << args, fs, toolPath, target_folder, metadata, missing_prompts,
                    idx, user_metadata, identifier, get_user_input_calls, prompted,
                    files_to_upload, confirm, upload_calls >>

\* ConfirmUpload without the test of line 49
ConfirmUpload_IgnoresAnswer ==
    /\ pc = "confirm"
    /\ \E line \in ConfirmAnswers : confirm' = line
    /\ pc' = "upload"
    /\ UNCHANGED << args, fs, toolPath, target_folder, metadata, missing_prompts,
                    idx, user_metadata, identifier, get_user_input_calls, prompted,
                    files_to_upload, get_item_calls, upload_calls, raised, output,
                    exit_status >>

\* Lines 47-51: the confirmation prompt
ConfirmUpload ==
    /\ pc = "confirm"
    /\ \E line \in ConfirmAnswers :
         /\ confirm' = line
         /\ IF Lower(line) # << "y" >>
            THEN /\ output' = output \cup { << "cancelled", << >> >> }
                 /\ Exit(0)
            ELSE /\ pc' = "upload"
                 /\ UNCHANGED << output, exit_status >>
    /\ UNCHANGED << args, fs, toolPath, target_folder, metadata, missing_prompts,
                    idx, user_metadata, identifier, get_user_input_calls, prompted,
                    files_to_upload, get_item_calls, upload_calls, raised >>

\* The call of lines 73-77
CallUpload ==
    upload_calls' =
        Append(upload_calls,
               [ files    |-> BuildUploadDict(files_to_upload, target_folder),
                 metadata |-> metadata ])

\* Lines 59-82: item.upload returns
UploadReturns ==
    /\ pc = "upload"
    /\ CallUpload
    /\ output' = output \cup { << "success", ViewUrl(identifier) >> }
    /\ Exit(0)
    /\ UNCHANGED << args, fs, toolPath, target_folder, metadata, missing_prompts,
                    idx, user_metadata, identifier, get_user_input_calls, prompted,
                    files_to_upload, confirm, get_item_calls, raised >>

\* Lines 59-77 and 84-88: item.upload raises
UploadRaises ==
    /\ pc = "upload"
    /\ CallUpload
    /\ \E e \in ClientRaises :
         /\ raised' = raised \cup { << "upload" >> \o e }
         /\ output' = output \cup { ExceptLine(e) }
    /\ Exit(0)
    /\ UNCHANGED << args, fs, toolPath, target_folder, metadata, missing_prompts,
                    idx, user_metadata, identifier, get_user_input_calls, prompted,
                    files_to_upload, confirm, get_item_calls >>

-----------------------------------------------------------------------------
(* The invocations explored *)

\* Every combination of the seven metadata flags, with and without -y
AllArgs ==
    [ identifier  : FlagChoices("identifier"),
      title       : FlagChoices("title"),
      creator     : FlagChoices("creator"),
      mediatype   : FlagChoices("mediatype"),
      description : FlagChoices("description"),
      subjects    : FlagChoices("subjects"),
      year        : FlagChoices("year"),
      folder      : Folders,
      yes         : BOOLEAN ]

\* The invocations run against every file system: no optional flag, and
\* title, creator and mediatype given together or not at all
FewArgs ==
    { a \in AllArgs :
        /\ a.description = None /\ a.subjects = None /\ a.year = None
        /\ a.title # << >>
        /\ (a.creator = None) = (a.title = None)
        /\ (a.mediatype = None) = (a.title = None) }

\* The file systems: at most MaxFiles candidate files, and the tool's own file
FileSystems(n) ==
    { [ tool |-> t, files |-> S \cup { t } ] :
        t \in ToolPaths,
        S \in { X \in SUBSET CandidateFiles : Cardinality(X) <= n } }

\* The file systems every flag combination is run against: the tool installed
\* outside the folder, which is empty or holds one file
PlainFileSystems ==
    { w \in FileSystems(1) :
        w.tool = << "opt", ScriptName >> /\ w.files \subseteq { w.tool, Cwd \o << "a.txt" >> } }

InitProgram ==
    /\ pc = "main"
    /\ target_folder = None
    /\ metadata = EmptyDict
    /\ missing_prompts = << >>
    /\ idx = 0
    /\ user_metadata = EmptyDict
    /\ identifier = None
    /\ get_user_input_calls = 0
    /\ prompted = {}
    /\ files_to_upload = {}
    /\ confirm = None
    /\ get_item_calls = << >>
    /\ upload_calls = << >>
    /\ raised = {}
    /\ output = {}
    /\ exit_status = Running

Init ==
    /\ InitProgram
    /\ \/ /\ args \in AllArgs
          /\ \E w \in PlainFileSystems : fs = w.files /\ toolPath = w.tool
       \/ /\ args \in FewArgs
          /\ \E w \in FileSystems(MaxFiles) : fs = w.files /\ toolPath = w.tool

Next ==
    \/ FolderNotFound
    \/ MetadataFromFlags
    \/ NonInteractiveError
    \/ StartPrompting
    \/ PromptInput
    \/ CombineMetadata
    \/ PopIdentifier
    \/ PopKeyError
    \/ GetItemReturns
    \/ GetItemRaises
    \/ ConfirmUpload
    \/ UploadReturns
    \/ UploadRaises

Spec == Init /\ [][Next]_vars

-----------------------------------------------------------------------------
(* Vocabulary of the properties *)

Done == pc = "done"

UploadCalled == upload_calls # << >>

\* The arguments of the (first) call of item.upload
Uploaded == upload_calls[1]

EnteredUploadFolder == get_item_calls # << >>

SuccessPrinted == \E m \in output : m[1] = "success"

NoFilesPrinted == << "no files", << >> >> \in output

\* text occurs in line
Contains(line, text) ==
    \E i \in 1..(Len(line) - Len(text) + 1) :
        SubSeq(line, i, i + Len(text) - 1) = text

RequiredKeys == { "title", "creator", "mediatype" }

\* The regular files below the target folder other than the tool's own file
UploadableFiles ==
    { f \in fs : IsPrefix(PathOf(target_folder).parts, f)
                 /\ Len(f) > Len(PathOf(target_folder).parts)
                 /\ f # toolPath }

\* The path of file f relative to the target folder, as a string
RemoteName(f) ==
    PathStr([ abs |-> FALSE,
              parts |-> SubSeq(f, Len(PathOf(target_folder).parts) + 1, Len(f)) ])

-----------------------------------------------------------------------------
(* C1 *)

\* C1: whenever item.upload is called, the identifier is a non-empty string
\* and the metadata record passed holds non-empty values for title, creator
\* and mediatype.
C1_RequiredFieldsNonEmpty ==
    UploadCalled =>
        /\ Truthy(identifier)
        /\ \A k \in RequiredKeys :
              /\ k \in DOMAIN Uploaded.metadata
              /\ Truthy(Uploaded.metadata[k])

(* C2 *)

\* C2: whenever item.upload is called, a non-empty --subjects value is the
\* record's subject and a non-empty --year value is the record's date, on the
\* all-flags path and on the prompting path alike.
C2_RemapFromFlags ==
    UploadCalled =>
        /\ Truthy(args.subjects) =>
              /\ "subject" \in DOMAIN Uploaded.metadata
              /\ Uploaded.metadata["subject"] = args.subjects
        /\ Truthy(args.year) =>
              /\ "date" \in DOMAIN Uploaded.metadata
              /\ Uploaded.metadata["date"] = args.year

(* C3 *)

\* C3: a run that has ended exited with code 1 exactly when the folder does
\* not exist or -y was given without every essential flag, and with code 0
\* otherwise.
C3_ExitCodes ==
    Done =>
        /\ exit_status \in { 0, 1 }
        /\ (exit_status = 1) <=>
              \/ ~IsDir(AbsPath(args.folder))
              \/ (args.yes /\ ~EssentialProvided(args))

(* C4 *)

\* C4: with -y and an essential flag absent or empty, no prompt is shown
\* (neither a metadata prompt nor the confirmation), neither get_item nor
\* item.upload is called, and the run ends with exit code 1.
C4_NonInteractiveMissing ==
    (args.yes /\ ~EssentialProvided(args)) =>
        /\ get_user_input_calls = 0
        /\ prompted = {}
        /\ confirm = None
        /\ get_item_calls = << >>
        /\ upload_calls = << >>
        /\ pc \in { "main", "done" }
        /\ Done => exit_status = 1

\* -y with only --identifier and --title, in a folder that exists: exit 1
C4_Witness ==
    /\ Done
    /\ args.yes
    /\ IsDir(target_folder)
    /\ Truthy(args.identifier) /\ Truthy(args.title)
    /\ args.creator = None /\ args.mediatype = None
    /\ exit_status = 1
    /\ \E m \in output : m[1] = "required flags"

(* C5 *)

\* C5: the mapping passed to item.upload has as keys exactly the relative
\* paths of the regular files below the target folder other than the tool's
\* own file, and each key maps to the local path of that file.
C5_FileMapping ==
    UploadCalled =>
        /\ DOMAIN Uploaded.files = { RemoteName(f) : f \in UploadableFiles }
        /\ \A f \in UploadableFiles :
              Uploaded.files[RemoteName(f)] = PathStr([ abs |-> TRUE, parts |-> f ])

(* C6 *)

\* C6 as stated: a run that entered upload_folder on a folder with no
\* uploadable file printed the "no files" line, did not call item.upload and
\* exited with code 0, whatever get_item did.
C6_NoFilesOriginal ==
    (Done /\ EnteredUploadFolder /\ UploadableFiles = {}) =>
        /\ NoFilesPrinted
        /\ ~UploadCalled
        /\ exit_status = 0

\* C6 as amended: on a folder with no uploadable file item.upload is never
\* called; a run that entered upload_folder exits with code 0, and prints
\* the "no files" line exactly when get_item returned; when get_item raised,
\* the line of the except clause is printed instead.
C6_NoFiles ==
    /\ UploadableFiles = {} => ~UploadCalled
    /\ (Done /\ EnteredUploadFolder /\ UploadableFiles = {}) =>
          /\ exit_status = 0
          /\ NoFilesPrinted <=> (raised = {})
          /\ raised # {} =>
                \E m \in output : m[1] \in { "authentication error", "unexpected error" }

\* A folder that holds the tool's own file and nothing else: "no files"
C6_Witness ==
    /\ Done
    /\ toolPath = Cwd \o << ScriptName >>
    /\ UploadableFiles = {}
    /\ NoFilesPrinted
    /\ exit_status = 0

(* C7 *)

\* C7: when identifier, title, creator and mediatype are all given a
\* non-empty value by flags, get_user_input is never called and no metadata
\* prompt is read, with or without -y.
C7_NoPromptWhenEssentialGiven ==
    EssentialProvided(args) =>
        /\ get_user_input_calls = 0
        /\ prompted = {}
        /\ pc \notin { "input", "combine" }

\* The essential flags without -y and without the optional ones: the upload
\* is made and no optional field was asked for
C7_Witness ==
    /\ EssentialProvided(args)
    /\ ~args.yes
    /\ args.description = None /\ args.subjects = None /\ args.year = None
    /\ UploadCalled
    /\ DOMAIN Uploaded.metadata = RequiredKeys

(* C8 *)

\* C8: an exception raised by get_item or by item.upload ends the run with
\* exit code 0 and without the success line; an authentication failure
\* prints the credential-setup line and any other exception prints a line
\* containing its text.
C8_ClientFailuresCaught ==
    \A r \in raised :
        /\ Done
        /\ exit_status = 0
        /\ ~SuccessPrinted
        /\ r[2] = "AuthenticationError" =>
              \E m \in output : m[1] = "authentication error"
        /\ r[2] # "AuthenticationError" =>
              \E m \in output : m[1] = "unexpected error" /\ Contains(m[2], r[3])

\* item.upload raised an exception other than an authentication failure
C8_Witness ==
    /\ Done
    /\ \E r \in raised : r[1] = "upload" /\ r[2] = "Exception"

(* C9 *)

\* C9: the record passed to item.upload has no key identifier; get_item is
\* called with the identifier, which is the flag's value when the flag has
\* one and the prompt's answer when the flag is absent.
C9_IdentifierSeparate ==
    /\ UploadCalled => "identifier" \notin DOMAIN Uploaded.metadata
    /\ EnteredUploadFolder =>
          /\ get_item_calls = << identifier >>
          /\ Truthy(identifier)
          /\ Truthy(args.identifier) => identifier = args.identifier
          /\ args.identifier = None =>
                /\ "identifier" \in DOMAIN user_metadata
                /\ identifier = user_metadata["identifier"]

\* An upload whose identifier came from the prompt
C9_Witness ==
    /\ UploadCalled
    /\ "identifier" \in prompted
    /\ "title" \in DOMAIN Uploaded.metadata

(* C10 *)

\* The conjuncts of C10 that do not depend on what counts as the answer y:
\* at most one call of item.upload, no confirmation prompt with -y, and the
\* success line only after item.upload returned.
UploadOnceAndSuccessAfter ==
    /\ Len(upload_calls) <= 1
    /\ args.yes => confirm = None
    /\ (~args.yes /\ UploadCalled) => confirm # None
    /\ SuccessPrinted =>
          /\ UploadCalled
          /\ raised = {}
          /\ output = { << "success", ViewUrl(identifier) >> }

\* C10 as stated: without -y, item.upload is called only after the answer y,
\* and any other answer ends the run without upload and without success line.
C10_ConfirmOriginal ==
    /\ UploadOnceAndSuccessAfter
    /\ (~args.yes /\ UploadCalled) => confirm = << "y" >>
    /\ (Done /\ confirm \notin { None, << "y" >> }) =>
          /\ ~UploadCalled
          /\ ~SuccessPrinted

\* C10 as amended: the answer is compared after lower(), so y and Y both
\* confirm; any other answer ends the run without upload and without success
\* line.
C10_Confirm ==
    /\ UploadOnceAndSuccessAfter
    /\ (~args.yes /\ (UploadCalled \/ pc = "upload")) =>
          confirm \in { << "y" >>, << "Y" >> }
    /\ (Done /\ confirm \notin { None, << "y" >>, << "Y" >> }) =>
          /\ ~UploadCalled
          /\ ~SuccessPrinted
          /\ output = { << "cancelled", << >> >> }
          /\ exit_status = 0

\* The answer Y, followed by a successful upload
C10_Witness ==
    /\ Done
    /\ ~args.yes
    /\ confirm = << "Y" >>
    /\ UploadCalled
    /\ SuccessPrinted

====
